---- MODULE Spec2Model ----
(***************************************************************************)
(* Model of sender.go (package gcm): the Sender's SendNoRetry and Send      *)
(* operations, the validation helpers checkSender/checkMessage, the        *)
(* reconciliation helper updateStatus and the backoff arithmetic.          *)
(*                                                                         *)
(* One behaviour is one call of Send or SendNoRetry on one Sender and one  *)
(* Message.  The gateway is the environment: every transport exchange      *)
(* either fails or yields a Response chosen nondeterministically.          *)
(***************************************************************************)
EXTENDS Integers, Sequences, FiniteSets, TLC

(***************************************************************************)
(* Program constants (sender.go, const block).                             *)
(***************************************************************************)
backoffInitialDelay == 1000
maxBackoffDelay == 1024000
maxRegistrationIDs == 1000
maxTimeToLive == 2419200
GcmSendEndpoint == "https://gcm-http.googleapis.com/gcm/send"
defaultEndpoint == GcmSendEndpoint

(***************************************************************************)
(* Bounds of the model.                                                    *)
(***************************************************************************)
\* Longest target list whose gateway replies are enumerated result by result.
MaxTargets == 3
\* Largest retry budget passed to Send.
MaxRetries == 2
\* Largest sum of the length of the target list and of the retry budget.
MaxWork == 4
\* The retry budget of the calls that follow the delay up to its maximum.
MaxLongRetries == 12

\* The k-th registration identifier of the enumerated target lists.
ID(k) == "t" \o ToString(k)

(***************************************************************************)
(* Values.                                                                 *)
(***************************************************************************)
\* Go's nil pointer / nil error / absent value: the empty option.
None == <<>>
Some(x) == <<x>>

\* The four exit errors of the validation chain and of Send, and the error
\* a failed transport exchange yields.
ErrApiKey == "the sender's API key must not be empty"
ErrNilMessage == "the message must not be nil"
ErrNilIDs == "the message's RegistrationIDs field must not be nil"
ErrNoIDs == "the message must specify at least one registration ID"
ErrTooManyIDs == "the message may specify at most 1000 registration IDs"
ErrTimeToLive == "the message's TimeToLive field must be an integer between 0 and 2419200 (4 weeks)"
ErrRetries == "'retries' must not be negative."
ErrTransport == "transport"
NoError == ""

\* Result: the per-target entry of a Response.
ZeroResult == [MessageID |-> "", RegistrationID |-> "", Error |-> ""]
ResultOk == [MessageID |-> "m", RegistrationID |-> "", Error |-> ""]
ResultCanonical == [MessageID |-> "m", RegistrationID |-> "c", Error |-> ""]
ResultUnavailable == [MessageID |-> "", RegistrationID |-> "", Error |-> "Unavailable"]
ResultNotRegistered == [MessageID |-> "", RegistrationID |-> "", Error |-> "NotRegistered"]
ResultKinds == {ResultOk, ResultCanonical, ResultUnavailable, ResultNotRegistered}

\* The elements of a sequence.
Range(s) == {s[j] : j \in 1..Len(s)}

IsSuccess(r) == r.MessageID # ""
IsCanonical(r) == r.MessageID # "" /\ r.RegistrationID # ""

\* Mutant of CountCanonical: every success is counted.
CountCanonicalEverySuccess(s) == Cardinality({j \in 1..Len(s) : s[j].MessageID # ""})

\* Number of results with a message id, and of those with a registration id
\* as well.
CountSuccess(s) == Cardinality({j \in 1..Len(s) : IsSuccess(s[j])})
CountCanonical(s) == Cardinality({j \in 1..Len(s) : IsCanonical(s[j])})

(***************************************************************************)
(* State.                                                                  *)
(***************************************************************************)
VARIABLES
    op,          \* the operation called: "Send" or "SendNoRetry"
    sender,      \* the *Sender: [ApiKey, URL, Http]
    msg,         \* the *Message: [isNil, idsNil, RegistrationIDs, TimeToLive]
    retries,     \* Send's retries argument
    pc,          \* position of the call
    resp,        \* Send's local resp: the latest round's Response, or None
    regIDs,      \* Send's local regIDs: the saved original target list
    allResults,  \* Send's local allResults: map registration id -> Result
    backoff,     \* Send's local backoff: the current base delay
    i,           \* Send's loop counter
    ret,         \* what the call returned: [resp, err]
    rounds,      \* history: one entry per transport exchange, [sent, reply]
    sleeps,      \* history: the number of time.Sleep calls made
    slept,       \* history: the latest time.Sleep, [time, base, exchanges], or None
    msg0,        \* history: the message as it was before the call
    sender0,     \* history: the sender as it was before the call
    gateway,     \* the server behind sender.URL: "conforming" or "any"
    callers,     \* two concurrent calls of Send: the locals of each caller
    slice        \* two concurrent calls: msg.RegistrationIDs as [data, len]

vars == <<op, sender, msg, retries, pc, resp, regIDs, allResults, backoff, i,
          ret, rounds, sleeps, slept, msg0, sender0, gateway, callers, slice>>

(***************************************************************************)
(* Validation helpers.                                                     *)
(***************************************************************************)
\* checkSender: the error it returns and the sender as it leaves it.
checkSender(s) ==
    IF s.ApiKey = ""
    THEN [err |-> ErrApiKey, sender |-> s]
    ELSE [err |-> NoError,
          sender |-> [s EXCEPT !.Http = IF @ = "nil" THEN "new(http.Client)" ELSE @,
                               !.URL = IF @ = "" THEN defaultEndpoint ELSE @]]

\* Mutant of ttlTooLarge: the limit itself is refused.
ttlTooLargeAtLimit(ttl) == maxTimeToLive <= ttl

\* The upper bound test of the time-to-live check.
ttlTooLarge(ttl) == maxTimeToLive < ttl

\* The upper bound test of the target-count check.
tooManyIDs(n) == n > maxRegistrationIDs

\* checkMessage: the error it returns (NoError for nil).
checkMessage(m) ==
    IF m.isNil THEN ErrNilMessage
    ELSE IF m.idsNil THEN ErrNilIDs
    ELSE IF Len(m.RegistrationIDs) = 0 THEN ErrNoIDs
    ELSE IF tooManyIDs(Len(m.RegistrationIDs)) THEN ErrTooManyIDs
    ELSE IF m.TimeToLive < 0 \/ ttlTooLarge(m.TimeToLive) THEN ErrTimeToLive
    ELSE NoError

\* The guard chain that opens SendNoRetry: checkSender, then checkMessage.
checkNoRetry(s, m) ==
    LET cs == checkSender(s) IN
    IF cs.err # NoError THEN cs
    ELSE [err |-> checkMessage(m), sender |-> cs.sender]

\* Mutant of checkSend: the retry budget is not looked at.
checkSendAnyBudget(s, m, r) == checkNoRetry(s, m)

\* The guard chain that opens Send: checkSender, checkMessage, retries < 0.
checkSend(s, m, r) ==
    LET cm == checkNoRetry(s, m) IN
    IF cm.err # NoError THEN cm
    ELSE IF r < 0 THEN [err |-> ErrRetries, sender |-> cm.sender]
    ELSE cm

(***************************************************************************)
(* The retry engine's helpers.                                             *)
(***************************************************************************)
min(a, b) == IF a < b THEN a ELSE b

\* Mutant of nextBackoff: the delay is doubled without limit.
nextBackoffUncapped(b) == 2 * b

\* The delay that follows the current one.
nextBackoff(b) == min(2 * b, maxBackoffDelay)

\* Mutant of fastPath: both conditions are required.
fastPathBoth(r, n) == r.Failure = 0 /\ n = 0

\* Send's test after round 0: return the round's response as it is.
fastPath(r, n) == r.Failure = 0 \/ n = 0

\* Mutant of loopContinues: one retry more than the budget.
loopContinuesOnceMore(unsent, k, n) == unsent > 0 /\ k <= n

\* Mutant of loopContinues: the count of retryable targets is not looked at.
loopContinuesBlindly(unsent, k, n) == k < n

\* The continuation test of Send's loop, given updateStatus's return value.
loopContinues(unsent, k, n) == unsent > 0 /\ k < n

\* Mutant of isUnsent: every failure is retried.
isUnsentAnyError(result) == result.Error # ""

\* Mutant of isUnsent: every target is sent again.
isUnsentAlways(result) == TRUE

\* The test that puts a target on the next round's list.
isUnsent(result) == result.Error = "Unavailable"

\* Mutant of MapPut: a retryable result is not recorded.
MapPutResolved(all, id, r) ==
    IF r.Error = "Unavailable" THEN all
    ELSE [x \in (DOMAIN all) \cup {id} |-> IF x = id THEN r ELSE all[x]]

\* Mutant of MapPut: an entry already in the map is kept.
MapPutOnce(all, id, r) == [x \in (DOMAIN all) \cup {id} |-> IF x \in DOMAIN all THEN all[x] ELSE r]

\* allResults[id] = r
MapPut(all, id, r) == [x \in (DOMAIN all) \cup {id} |-> IF x = id THEN r ELSE all[x]]

\* Mutant of MapGet: a target without an entry is taken as delivered.
MapGetAbsentOk(all, id) == IF id \in DOMAIN all THEN all[id] ELSE ResultOk

\* result, _ := allResults[id]
MapGet(all, id) == IF id \in DOMAIN all THEN all[id] ELSE ZeroResult

EmptyMap == [x \in {} |-> ZeroResult]

\* regID := msg.RegistrationIDs[i] is reached with i past the end of the
\* list when the response holds more results than the list has entries: the
\* Go runtime panics (index out of range).
panics(ids, r) == Len(r.Results) > Len(ids)

\* updateStatus's loop from index k on (1-based): all is the map and unsent
\* the list built so far.
RECURSIVE updateStatusFrom(_, _, _, _, _)
updateStatusFrom(ids, results, k, all, unsent) ==
    IF k > Len(results)
    THEN [all |-> all, unsent |-> unsent, n |-> Len(unsent)]
    ELSE updateStatusFrom(ids, results, k + 1,
                          MapPut(all, ids[k], results[k]),
                          IF isUnsent(results[k]) THEN Append(unsent, ids[k]) ELSE unsent)

\* updateStatus(msg, resp, allResults): the new map, the new target list of
\* the message and the returned count.
updateStatus(ids, r, all) == updateStatusFrom(ids, r.Results, 1, all, <<>>)

\* Mutant of finalLen: the last target is left out.
finalLenShort(ids) == Len(ids) - 1

\* make([]Result, len(regIDs)): the length of the final results.
finalLen(ids) == Len(ids)

\* The Response Send builds after the loop.
finalResponse(ids, all, mid) ==
    LET finalResults == [k \in 1..finalLen(ids) |-> MapGet(all, ids[k])]
        success == CountSuccess(finalResults)
    IN  [MulticastID |-> mid,
         Success |-> success,
         Failure |-> Len(finalResults) - success,
         CanonicalIDs |-> CountCanonical(finalResults),
         Results |-> finalResults]

\* Mutant of restoreOnError: the list is left as the loop shortened it.
restoreOnErrorForgotten(m, ids) == m

\* msg.RegistrationIDs = regIDs on the transport-error exit of the loop.
restoreOnError(m, ids) == [m EXCEPT !.RegistrationIDs = ids]

\* Mutant of restoreAfterLoop: the list is left as the last round left it.
restoreAfterLoopForgotten(m, ids) == m

\* msg.RegistrationIDs = regIDs after the loop.
restoreAfterLoop(m, ids) == [m EXCEPT !.RegistrationIDs = ids]

(***************************************************************************)
(* The transport exchange (Sender.send) and the gateway behind it.         *)
(***************************************************************************)
\* The result sequences the gateway may return for a target list: one result
\* per submitted target.  Lists longer than MaxTargets get the same result
\* at every position.
Replies(ids) ==
    IF Len(ids) <= MaxTargets
    THEN [1..Len(ids) -> ResultKinds]
    ELSE {[k \in 1..Len(ids) |-> r] : r \in ResultKinds}

\* The Response decoded from the gateway's reply.
GatewayResponse(results, mid) ==
    [MulticastID |-> mid,
     Success |-> CountSuccess(results),
     Failure |-> Len(results) - CountSuccess(results),
     CanonicalIDs |-> CountCanonical(results),
     Results |-> results]

\* The results array of the reply as it reaches the decoder.  A conforming
\* gateway sends one result per target; any other server may drop results
\* from the end of the array or add one, the counts of the reply unchanged.
Delivered(full) ==
    IF gateway = "conforming"
    THEN {full}
    ELSE {SubSeq(full, 1, n) : n \in 0..Len(full)} \cup {Append(full, ResultOk)}

\* s.send(msg): None for an error, else the decoded Response.  The gateway
\* numbers the batches it answers.
send(ids, mid) ==
    {None} \cup
    UNION {{Some([GatewayResponse(full, mid) EXCEPT !.Results = rs]) : rs \in Delivered(full)} :
              full \in Replies(ids)}

\* rand.Intn(backoff) returns a value of 0..backoff-1; the extremes are taken.
Jitters(b) == {0, b - 1}

(***************************************************************************)
(* The calls explored.                                                     *)
(***************************************************************************)
Senders == [ApiKey : {"", "k"}, URL : {"", "u"}, Http : {"nil", "client"}]

NilMessage == [isNil |-> TRUE, idsNil |-> TRUE, RegistrationIDs |-> <<>>, TimeToLive |-> 0]

Message(ids, ttl) == [isNil |-> FALSE, idsNil |-> FALSE, RegistrationIDs |-> ids, TimeToLive |-> ttl]

\* Target lists of n entries, one for each pattern of equal and distinct
\* identifiers: an identifier new to the list is the next unused ID.
Patterns(n) ==
    {f \in [1..n -> 1..n] :
        \A k \in 1..n : \/ \E j \in 1..(k - 1) : f[j] = f[k]
                        \/ f[k] = 1 + Cardinality({f[j] : j \in 1..(k - 1)})}

\* Every such target list of at most MaxTargets entries.
SmallLists == UNION {{[k \in 1..n |-> ID(f[k])] : f \in Patterns(n)} : n \in 0..MaxTargets}

\* Target lists around the limit of maxRegistrationIDs entries.
LimitLists ==
    {[k \in 1..n |-> ID(1)] : n \in {maxRegistrationIDs - 1, maxRegistrationIDs, maxRegistrationIDs + 1}}

\* Time-to-live values around both ends of the allowed range.
TTLs == {-1, 0, maxTimeToLive, maxTimeToLive + 1}

\* Calls on the edges of validation: any sender, Send and SendNoRetry, no
\* retries (the retry engine is explored on the small lists).
EdgeCalls ==
    [op : {"Send", "SendNoRetry"},
     sender : Senders,
     msg : {NilMessage, [Message(<<>>, 0) EXCEPT !.idsNil = TRUE]}
           \cup {Message(ids, ttl) : ids \in LimitLists \cup {<<>>, <<ID(1)>>}, ttl \in TTLs},
     retries : {-1, 0}]

\* Calls of Send that exercise the retry engine on the small target lists:
\* the longer the list, the smaller the largest budget explored.
EngineCalls ==
    {c \in [op : {"Send"},
            sender : {[ApiKey |-> "k", URL |-> "u", Http |-> "client"]},
            msg : {Message(ids, 0) : ids \in SmallLists},
            retries : 0..MaxRetries] :
        Len(c.msg.RegistrationIDs) + c.retries <= MaxWork}

\* Calls of Send on one target with a budget long enough for the delay to
\* reach maxBackoffDelay and stay there.
LongCalls ==
    [op : {"Send"},
     sender : {[ApiKey |-> "k", URL |-> "u", Http |-> "client"]},
     msg : {Message(<<ID(1)>>, 0)},
     retries : {MaxLongRetries}]

Calls == EdgeCalls \cup EngineCalls \cup LongCalls

\* Calls made to a server that need not keep the gateway's contract: Send on
\* the small target lists, and both operations at the edge of validation.
AnyReplyCalls ==
    {c \in EngineCalls : Len(c.msg.RegistrationIDs) + c.retries < MaxWork}
    \cup [op : {"Send", "SendNoRetry"},
          sender : {[ApiKey |-> k, URL |-> "u", Http |-> "client"] : k \in {"", "k"}},
          msg : {Message(<<ID(1)>>, 0)},
          retries : {-1, 0}]

\* The state at the entry of call c, made to a server of kind g.
Start(c, g) ==
    /\ op = c.op
    /\ sender = c.sender
    /\ msg = c.msg
    /\ retries = c.retries
    /\ pc = "start"
    /\ resp = None
    /\ regIDs = <<>>
    /\ allResults = EmptyMap
    /\ backoff = 0
    /\ i = 0
    /\ ret = [resp |-> None, err |-> NoError]
    /\ rounds = <<>>
    /\ sleeps = 0
    /\ slept = None
    /\ msg0 = c.msg
    /\ sender0 = c.sender
    /\ gateway = g

\* The slice header of the list ids.
Header(ids) == [data |-> ids, len |-> Len(ids)]

\* One call owns the message: no other caller.
Single == callers = <<>> /\ slice = Header(<<>>)

Init == \E c \in Calls : Start(c, "conforming") /\ Single

InitAnyReply == \E c \in AnyReplyCalls : Start(c, "any") /\ Single

locals == <<resp, regIDs, allResults, backoff, i>>
inputs == <<op, retries, msg0, sender0, gateway, callers, slice>>

Return(r, e) == ret' = [resp |-> r, err |-> e] /\ pc' = "done"

\* time.Sleep(sleepTime), taken with the current base delay after the
\* exchanges made so far.
Sleep(sleepTime) ==
    /\ sleeps' = sleeps + 1
    /\ slept' = Some([time |-> sleepTime, base |-> backoff, exchanges |-> Len(rounds)])

Exchange(ids, out) == rounds' = Append(rounds, [sent |-> ids, reply |-> out])

(***************************************************************************)
(* SendNoRetry.                                                            *)
(***************************************************************************)
\* A guard of SendNoRetry fails: return nil and the error.
SendNoRetryReject ==
    /\ pc = "start" /\ op = "SendNoRetry"
    /\ checkNoRetry(sender, msg).err # NoError
    /\ sender' = checkNoRetry(sender, msg).sender
    /\ Return(None, checkNoRetry(sender, msg).err)
    /\ UNCHANGED <<msg, locals, inputs, rounds, sleeps, slept>>

\* The guards pass: return s.send(msg).
SendNoRetryExchange ==
    /\ pc = "start" /\ op = "SendNoRetry"
    /\ checkNoRetry(sender, msg).err = NoError
    /\ sender' = checkNoRetry(sender, msg).sender
    /\ \E out \in send(msg.RegistrationIDs, Len(rounds) + 1) :
          /\ Exchange(msg.RegistrationIDs, out)
          /\ Return(out, IF out = None THEN ErrTransport ELSE NoError)
    /\ UNCHANGED <<msg, locals, inputs, sleeps, slept>>

(***************************************************************************)
(* Send.                                                                   *)
(***************************************************************************)
\* A guard of Send fails: return nil and the error.
SendReject ==
    /\ pc = "start" /\ op = "Send"
    /\ checkSend(sender, msg, retries).err # NoError
    /\ sender' = checkSend(sender, msg, retries).sender
    /\ Return(None, checkSend(sender, msg, retries).err)
    /\ UNCHANGED <<msg, locals, inputs, rounds, sleeps, slept>>

\* The guards pass and round 0's exchange fails: return nil and the error.
SendFirstError ==
    /\ pc = "start" /\ op = "Send"
    /\ checkSend(sender, msg, retries).err = NoError
    /\ sender' = checkSend(sender, msg, retries).sender
    /\ Exchange(msg.RegistrationIDs, None)
    /\ Return(None, ErrTransport)
    /\ UNCHANGED <<msg, locals, inputs, sleeps, slept>>

\* Round 0 answers and Send returns its response as it is.
SendFirstReturn ==
    /\ pc = "start" /\ op = "Send"
    /\ checkSend(sender, msg, retries).err = NoError
    /\ sender' = checkSend(sender, msg, retries).sender
    /\ \E out \in send(msg.RegistrationIDs, Len(rounds) + 1) \ {None} :
          /\ fastPath(out[1], retries)
          /\ Exchange(msg.RegistrationIDs, out)
          /\ Return(out, NoError)
    /\ UNCHANGED <<msg, locals, inputs, sleeps, slept>>

\* Round 0 answers with failures and retries > 0: set up the loop.
SendFirstFailures ==
    /\ pc = "start" /\ op = "Send"
    /\ checkSend(sender, msg, retries).err = NoError
    /\ sender' = checkSend(sender, msg, retries).sender
    /\ \E out \in send(msg.RegistrationIDs, Len(rounds) + 1) \ {None} :
          /\ ~fastPath(out[1], retries)
          /\ Exchange(msg.RegistrationIDs, out)
          /\ resp' = out
    /\ regIDs' = msg.RegistrationIDs
    /\ allResults' = EmptyMap
    /\ backoff' = backoffInitialDelay
    /\ i' = 0
    /\ pc' = "loop"
    /\ UNCHANGED <<msg, ret, inputs, sleeps, slept>>

\* The loop's test holds: updateStatus has shortened the message's list;
\* sleep, double the delay, send again; the exchange answers.
SendRetry ==
    /\ pc = "loop"
    /\ ~panics(msg.RegistrationIDs, resp[1])
    /\ LET u == updateStatus(msg.RegistrationIDs, resp[1], allResults) IN
          /\ loopContinues(u.n, i, retries)
          /\ allResults' = u.all
          /\ \E jitter \in Jitters(backoff) : Sleep((backoff \div 2) + jitter)
          /\ backoff' = nextBackoff(backoff)
          /\ \E out \in send(u.unsent, Len(rounds) + 1) \ {None} :
                /\ Exchange(u.unsent, out)
                /\ resp' = out
          /\ msg' = [msg EXCEPT !.RegistrationIDs = u.unsent]
          /\ i' = i + 1
          /\ pc' = "loop"
    /\ UNCHANGED <<sender, regIDs, ret, inputs>>

\* Mutant of SendRetryError: the error of a retry round is swallowed and the
\* loop goes on with the previous response.
SendRetryErrorSwallowed ==
    /\ pc = "loop"
    /\ ~panics(msg.RegistrationIDs, resp[1])
    /\ LET u == updateStatus(msg.RegistrationIDs, resp[1], allResults) IN
          /\ loopContinues(u.n, i, retries)
          /\ allResults' = u.all
          /\ \E jitter \in Jitters(backoff) : Sleep((backoff \div 2) + jitter)
          /\ backoff' = nextBackoff(backoff)
          /\ Exchange(u.unsent, None)
          /\ msg' = [msg EXCEPT !.RegistrationIDs = u.unsent]
          /\ i' = i + 1
    /\ UNCHANGED <<sender, resp, regIDs, pc, ret, inputs>>

\* The loop's test holds and the retry's exchange fails: restore the
\* message's list and return nil and the error.
SendRetryError ==
    /\ pc = "loop"
    /\ ~panics(msg.RegistrationIDs, resp[1])
    /\ LET u == updateStatus(msg.RegistrationIDs, resp[1], allResults) IN
          /\ loopContinues(u.n, i, retries)
          /\ allResults' = u.all
          /\ \E jitter \in Jitters(backoff) : Sleep((backoff \div 2) + jitter)
          /\ backoff' = nextBackoff(backoff)
          /\ Exchange(u.unsent, None)
          /\ msg' = restoreOnError([msg EXCEPT !.RegistrationIDs = u.unsent], regIDs)
          /\ Return(None, ErrTransport)
    /\ UNCHANGED <<sender, resp, regIDs, i, inputs>>

\* Mutant of SendFinish: targets left retryable make the call fail.
SendFinishStrict ==
    /\ pc = "loop"
    /\ ~panics(msg.RegistrationIDs, resp[1])
    /\ LET u == updateStatus(msg.RegistrationIDs, resp[1], allResults) IN
          /\ ~loopContinues(u.n, i, retries)
          /\ allResults' = u.all
          /\ msg' = restoreAfterLoop([msg EXCEPT !.RegistrationIDs = u.unsent], regIDs)
          /\ IF u.n > 0
             THEN Return(None, "retries exhausted")
             ELSE Return(Some(finalResponse(regIDs, u.all, resp[1].MulticastID)), NoError)
    /\ UNCHANGED <<sender, resp, regIDs, backoff, i, inputs, rounds, sleeps, slept>>

\* Mutant of SendFinish: the loop sleeps before it tests whether to go on.
SendFinishAfterSleep ==
    /\ pc = "loop"
    /\ ~panics(msg.RegistrationIDs, resp[1])
    /\ LET u == updateStatus(msg.RegistrationIDs, resp[1], allResults) IN
          /\ ~loopContinues(u.n, i, retries)
          /\ allResults' = u.all
          /\ \E jitter \in Jitters(backoff) : Sleep((backoff \div 2) + jitter)
          /\ msg' = restoreAfterLoop([msg EXCEPT !.RegistrationIDs = u.unsent], regIDs)
          /\ Return(Some(finalResponse(regIDs, u.all, resp[1].MulticastID)), NoError)
    /\ UNCHANGED <<sender, resp, regIDs, backoff, i, inputs, rounds>>

\* The loop's test fails: restore the message's list, build the overall
\* Response and return it.
SendFinish ==
    /\ pc = "loop"
    /\ ~panics(msg.RegistrationIDs, resp[1])
    /\ LET u == updateStatus(msg.RegistrationIDs, resp[1], allResults) IN
          /\ ~loopContinues(u.n, i, retries)
          /\ allResults' = u.all
          /\ msg' = restoreAfterLoop([msg EXCEPT !.RegistrationIDs = u.unsent], regIDs)
          /\ Return(Some(finalResponse(regIDs, u.all, resp[1].MulticastID)), NoError)
    /\ UNCHANGED <<sender, resp, regIDs, backoff, i, inputs, rounds, sleeps, slept>>

Next ==
    \/ SendNoRetryReject
    \/ SendNoRetryExchange
    \/ SendReject
    \/ SendFirstError
    \/ SendFirstReturn
    \/ SendFirstFailures
    \/ SendRetry
    \/ SendRetryError
    \/ SendFinish

Spec == Init /\ [][Next]_vars

\* The loop's test runs updateStatus on a response that holds more results
\* than the message's list has entries: the results up to the end of the list
\* are recorded, then the index is out of range and the call panics.
SendPanic ==
    /\ pc = "loop"
    /\ panics(msg.RegistrationIDs, resp[1])
    /\ allResults' = updateStatusFrom(msg.RegistrationIDs,
                                      SubSeq(resp[1].Results, 1, Len(msg.RegistrationIDs)),
                                      1, allResults, <<>>).all
    /\ pc' = "panic"
    /\ UNCHANGED <<sender, msg, resp, regIDs, backoff, i, ret, inputs, rounds, sleeps, slept>>

NextAnyReply == Next \/ SendPanic

\* The calls made to a server that may send any number of results.
SpecAnyReply == InitAnyReply /\ [][NextAnyReply]_vars

(***************************************************************************)
(* Two calls of Send on one message, made by two goroutines without any    *)
(* synchronisation.  Each access of Send to msg.RegistrationIDs is a step  *)
(* of its own.  The field is a slice header of several words: a store      *)
(* writes the words one at a time in either order, so a load may find the  *)
(* data pointer of one store with the length of another.                   *)
(***************************************************************************)
Callers == {1, 2}

Other(c) == CHOOSE d \in Callers : d # c

\* What a load finds at a position past the end of the array the header
\* points to: memory that is not part of the list.
Junk == "?"

\* The list a load of the header s yields.
View(s) == [k \in 1..s.len |-> IF k <= Len(s.data) THEN s.data[k] ELSE Junk]

\* The locals of a call of Send with budget r that has not taken a step.
NotStarted(r) ==
    [pc |-> "start", retries |-> r, resp |-> None, regIDs |-> <<>>,
     allResults |-> EmptyMap, backoff |-> 0, i |-> 0, k |-> 0, unsent |-> <<>>,
     ret |-> [resp |-> None, err |-> NoError],
     wr |-> <<>>, words |-> {}, next |-> "", solo |-> FALSE, stale |-> FALSE]

\* The two calls share a message of one or two targets; the first caller
\* may retry once, the second once or not at all.
SharedCalls == [ids : {<<ID(1)>>, <<ID(1), ID(2)>>}, r1 : {1}, r2 : {0, 1}]

InitShared ==
    \E c \in SharedCalls :
        /\ Start([op |-> "Send",
                  sender |-> [ApiKey |-> "k", URL |-> "u", Http |-> "client"],
                  msg |-> Message(c.ids, 0),
                  retries |-> 0], "conforming")
        /\ callers = <<NotStarted(c.r1), NotStarted(c.r2)>>
        /\ slice = Header(c.ids)

\* What the two callers leave alone: the state of the single call.
single == <<op, retries, pc, resp, regIDs, allResults, backoff, i, ret,
            rounds, sleeps, slept, msg0, sender0, gateway>>

\* Caller c goes on with the locals l.
Goes(c, l) == callers' = [callers EXCEPT ![c] = l]

\* The message as a load finds it.
Loaded == [msg EXCEPT !.RegistrationIDs = View(slice)]

\* The caller returns r and e: its locals are gone.
Returns(l, r, e) ==
    [NotStarted(l.retries) EXCEPT !.pc = "done", !.ret = [resp |-> r, err |-> e],
                                  !.solo = l.solo, !.stale = l.stale]

\* s.send(msg) as the two callers find it: the gateway answers each target
\* as delivered or as unavailable.
sendShared(ids, mid) ==
    {None} \cup {Some(GatewayResponse(rs, mid)) : rs \in [1..Len(ids) -> {ResultOk, ResultUnavailable}]}

\* Caller c is to store ids into msg.RegistrationIDs and go on at pc n.
Stores(l, ids, n) == [l EXCEPT !.pc = "store", !.wr = ids, !.words = {"ptr", "len"}, !.next = n]

\* The guards of Send, run by caller c on the message as it is now.
CallerCheck(c) ==
    LET l == callers[c]
        chk == checkSend(sender, Loaded, l.retries)
        mine == [l EXCEPT !.solo = callers[Other(c)].pc \in {"start", "done"}]
    IN  /\ l.pc = "start"
        /\ sender' = chk.sender
        /\ IF chk.err # NoError
           THEN Goes(c, Returns(mine, None, chk.err))
           ELSE Goes(c, [mine EXCEPT !.pc = "send"])
        /\ UNCHANGED <<msg, slice, single>>

\* Round 0 of caller c: s.send(msg) encodes the list as it is now.
CallerFirst(c) ==
    LET l == callers[c] IN
        /\ l.pc = "send"
        /\ \E out \in sendShared(View(slice), 1) :
              IF out = None
              THEN Goes(c, Returns(l, None, ErrTransport))
              ELSE IF fastPath(out[1], l.retries)
                   THEN Goes(c, Returns(l, out, NoError))
                   ELSE Goes(c, [l EXCEPT !.pc = "save", !.resp = out])
        /\ UNCHANGED <<sender, msg, slice, single>>

\* regIDs := msg.RegistrationIDs and the other locals of the loop.
CallerSave(c) ==
    LET l == callers[c] IN
        /\ l.pc = "save"
        /\ Goes(c, [l EXCEPT !.pc = "update", !.regIDs = View(slice),
                             !.stale = (View(slice) # msg0.RegistrationIDs),
                             !.allResults = EmptyMap, !.backoff = backoffInitialDelay,
                             !.i = 0, !.k = 1, !.unsent = <<>>])
        /\ UNCHANGED <<sender, msg, slice, single>>

\* One turn of updateStatus's loop: msg.RegistrationIDs[k] is loaded from
\* the list as it is now.
CallerUpdate(c) ==
    LET l == callers[c]
        r == l.resp[1].Results[l.k]
        id == View(slice)[l.k]
    IN  /\ l.pc = "update"
        /\ l.k <= Len(l.resp[1].Results)
        /\ l.k <= slice.len
        /\ Goes(c, [l EXCEPT !.allResults = MapPut(l.allResults, id, r),
                             !.unsent = IF isUnsent(r) THEN Append(l.unsent, id) ELSE l.unsent,
                             !.k = l.k + 1])
        /\ UNCHANGED <<sender, msg, slice, single>>

\* The list as it is now is shorter than the response: index out of range.
CallerPanic(c) ==
    LET l == callers[c] IN
        /\ l.pc = "update"
        /\ l.k <= Len(l.resp[1].Results)
        /\ l.k > slice.len
        /\ Goes(c, [l EXCEPT !.pc = "panic"])
        /\ UNCHANGED <<sender, msg, slice, single>>

\* updateStatus's loop is over: msg.RegistrationIDs = unsentRegIDs is to be
\* stored, then the loop of Send goes on or ends.
CallerUpdated(c) ==
    LET l == callers[c] IN
        /\ l.pc = "update"
        /\ l.k > Len(l.resp[1].Results)
        /\ Goes(c, Stores(l, l.unsent,
                          IF loopContinues(Len(l.unsent), l.i, l.retries)
                          THEN "retry" ELSE "restore"))
        /\ UNCHANGED <<sender, msg, slice, single>>

\* One word of the slice header is stored.
CallerStore(c) ==
    LET l == callers[c] IN
        /\ l.pc = "store"
        /\ \E w \in l.words :
              /\ slice' = IF w = "ptr" THEN [slice EXCEPT !.data = l.wr]
                                       ELSE [slice EXCEPT !.len = Len(l.wr)]
              /\ Goes(c, [l EXCEPT !.words = l.words \ {w},
                                   !.pc = IF l.words = {w} THEN l.next ELSE "store"])
        /\ msg' = [msg EXCEPT !.RegistrationIDs = View(slice')]
        /\ UNCHANGED <<sender, single>>

\* The body of the loop: sleep, double the delay, s.send(msg) on the list as
\* it is now.
CallerRetry(c) ==
    LET l == callers[c]
        m == [l EXCEPT !.backoff = nextBackoff(l.backoff)]
    IN  /\ l.pc = "retry"
        /\ \E out \in sendShared(View(slice), l.i + 2) :
              IF out = None
              THEN Goes(c, Stores(m, restoreOnError(Loaded, l.regIDs).RegistrationIDs, "fail"))
              ELSE Goes(c, [m EXCEPT !.pc = "update", !.resp = out, !.i = l.i + 1,
                                     !.k = 1, !.unsent = <<>>])
        /\ UNCHANGED <<sender, msg, slice, single>>

\* The list is restored after a failed retry: return nil and the error.
CallerFail(c) ==
    LET l == callers[c] IN
        /\ l.pc = "fail"
        /\ Goes(c, Returns(l, None, ErrTransport))
        /\ UNCHANGED <<sender, msg, slice, single>>

\* The loop is over: msg.RegistrationIDs = regIDs is to be stored.
CallerRestore(c) ==
    LET l == callers[c] IN
        /\ l.pc = "restore"
        /\ Goes(c, Stores(l, restoreAfterLoop(Loaded, l.regIDs).RegistrationIDs, "finish"))
        /\ UNCHANGED <<sender, msg, slice, single>>

\* The overall Response is built from the saved list and returned.
CallerFinish(c) ==
    LET l == callers[c] IN
        /\ l.pc = "finish"
        /\ Goes(c, Returns(l, Some(finalResponse(l.regIDs, l.allResults, l.resp[1].MulticastID)),
                           NoError))
        /\ UNCHANGED <<sender, msg, slice, single>>

\* The next load of caller c reaches past the end of an array: the memory
\* it finds may go on as an identifier, as the steps above have it, or end
\* the program.
CallerFault(c) ==
    LET l == callers[c] IN
        /\ \/ l.pc \in {"send", "retry"} /\ Junk \in Range(View(slice))
           \/ /\ l.pc = "update"
              /\ l.k <= Len(l.resp[1].Results)
              /\ l.k <= slice.len
              /\ View(slice)[l.k] = Junk
           \/ l.pc = "finish" /\ Junk \in Range(l.regIDs)
        /\ Goes(c, [l EXCEPT !.pc = "fault"])
        /\ UNCHANGED <<sender, msg, slice, single>>

NextShared ==
    \E c \in Callers :
        \/ CallerCheck(c)
        \/ CallerFirst(c)
        \/ CallerSave(c)
        \/ CallerUpdate(c)
        \/ CallerPanic(c)
        \/ CallerUpdated(c)
        \/ CallerStore(c)
        \/ CallerRetry(c)
        \/ CallerFail(c)
        \/ CallerRestore(c)
        \/ CallerFinish(c)
        \/ CallerFault(c)

\* Two concurrent calls of Send on one message.
SpecShared == InitShared /\ [][NextShared]_vars

(***************************************************************************)
(* Vocabulary of the properties, over the histories.                       *)
(***************************************************************************)
Original == msg0.RegistrationIDs
NumRounds == Len(rounds)
RoundOk(k) == rounds[k].reply # None
Sent(k) == rounds[k].sent
Results(k) == rounds[k].reply[1].Results
Returned == pc = "done"
Resolved(r) == r.Error # "Unavailable"

\* The positions of round k whose result is retryable.
RetryablePositions(k) == {j \in 1..Len(Results(k)) : ~Resolved(Results(k)[j])}

\* The entries of full at the positions J, in increasing order of position.
Pick(full, J) ==
    [m \in 1..Cardinality(J) |->
        full[CHOOSE j \in J : Cardinality({x \in J : x <= j}) = m]]

\* The requests the validation is to reject.
Invalid(s, m) ==
    \/ s.ApiKey = ""
    \/ m.isNil
    \/ m.idsNil
    \/ Len(m.RegistrationIDs) = 0
    \/ Len(m.RegistrationIDs) > 1000
    \/ m.TimeToLive < 0
    \/ m.TimeToLive > 2419200

\* Every result the gateway returned, in any round, at a position that held
\* the identifier t.
ResultsGivenTo(t) ==
    UNION {{Results(k)[j] : j \in {x \in 1..Len(Results(k)) : Sent(k)[x] = t}} :
           k \in {y \in 1..NumRounds : RoundOk(y)}}

(***************************************************************************)
(* C1.  Whenever Send returns without error, the returned response has     *)
(* one result per original target, and the result at each position is one  *)
(* the gateway returned for the identifier at that position.               *)
(***************************************************************************)
C1_ResultsAligned ==
    (Returned /\ op = "Send" /\ ret.err = NoError) =>
        /\ ret.resp # None
        /\ Len(ret.resp[1].Results) = Len(Original)
        /\ \A t \in Range(Original) :
              LET given == ResultsGivenTo(t) IN
              \A p \in 1..Len(Original) :
                  Original[p] = t => ret.resp[1].Results[p] \in given

\* Send has returned a response built after two retry rounds on two targets.
C1_Witness ==
    /\ Returned /\ op = "Send" /\ ret.err = NoError
    /\ NumRounds = 3
    /\ Len(Original) = 2
    /\ ret.resp[1].Results = <<ResultNotRegistered, ResultCanonical>>

(***************************************************************************)
(* C2.  Whenever Send has returned, on any exit, the message's target list *)
(* is the list it had before the call.                                     *)
(***************************************************************************)
C2_TargetsRestored ==
    (Returned /\ op = "Send") => msg.RegistrationIDs = Original

\* Send has returned on the transport error of a retry round that was sent
\* to a shortened list.
C2_Witness ==
    /\ Returned /\ op = "Send"
    /\ NumRounds >= 2
    /\ ~RoundOk(NumRounds)
    /\ Len(Sent(NumRounds)) < Len(Original)

(***************************************************************************)
(* C3.  A failed exchange of Send is the last one: the call has returned   *)
(* the error and no response, and the only sleeps are those that preceded  *)
(* the retry rounds up to it.                                              *)
(***************************************************************************)
C3_TransportErrorIsFinal ==
    op = "Send" =>
        \A k \in 1..NumRounds :
            ~RoundOk(k) =>
                /\ k = NumRounds
                /\ Returned
                /\ ret = [resp |-> None, err |-> ErrTransport]
                /\ sleeps = k - 1

\* Send's second retry round failed after two rounds that answered.
C3_Witness ==
    /\ op = "Send"
    /\ NumRounds = 3
    /\ RoundOk(1) /\ RoundOk(2) /\ ~RoundOk(3)

(***************************************************************************)
(* C4.  Both operations reject, with an error and before any exchange, a   *)
(* request with no or an empty target list, more than 1000 targets, a      *)
(* time-to-live below 0 or above 2419200, or an empty API key; any other   *)
(* request (with a retry budget of at least 0, for Send) gets its          *)
(* exchange.                                                               *)
(***************************************************************************)
C4_Validation ==
    /\ Invalid(sender0, msg0) =>
          /\ rounds = <<>>
          /\ Returned => (ret.err # NoError /\ ret.resp = None)
    /\ (~Invalid(sender0, msg0) /\ (op = "Send" => retries >= 0) /\ pc # "start") =>
          /\ NumRounds >= 1
          /\ ret.err \in {NoError, ErrTransport}

\* Send got its exchange for exactly 1000 targets with a time-to-live of
\* exactly 2419200.
C4_Witness ==
    /\ Returned /\ op = "Send"
    /\ Len(Original) = 1000
    /\ msg0.TimeToLive = 2419200
    /\ NumRounds = 1

(***************************************************************************)
(* C5.  When round 0 answers with a failure count of 0, or the retry       *)
(* budget is 0, Send has returned exactly round 0's response, after one    *)
(* exchange and no sleep.                                                  *)
(***************************************************************************)
C5_FastPath ==
    ( /\ op = "Send"
      /\ NumRounds >= 1
      /\ RoundOk(1)
      /\ (rounds[1].reply[1].Failure = 0 \/ retries = 0) ) =>
        /\ Returned
        /\ ret = [resp |-> rounds[1].reply, err |-> NoError]
        /\ NumRounds = 1
        /\ sleeps = 0

\* Send returned round 0's response, failures included, on a budget of 0.
C5_Witness ==
    /\ Returned /\ op = "Send"
    /\ retries = 0
    /\ NumRounds = 1 /\ RoundOk(1)
    /\ rounds[1].reply[1].Failure > 0
    /\ ret.resp = rounds[1].reply

(***************************************************************************)
(* C6.  Every retry round is sent to exactly the entries of the previous   *)
(* round's list whose result was "Unavailable", in the same order.         *)
(***************************************************************************)
C6_RetryTargets ==
    \A k \in 1..(NumRounds - 1) :
        /\ RoundOk(k)
        /\ Sent(k + 1) = Pick(Sent(k), RetryablePositions(k))

\* A retry round was sent to the one retryable target among a success, a
\* retryable failure and a terminal failure.
C6_Witness ==
    /\ NumRounds >= 2
    /\ Len(Sent(1)) = 3
    /\ Results(1) = <<ResultOk, ResultUnavailable, ResultNotRegistered>>
    /\ Sent(2) = <<Sent(1)[2]>>

(***************************************************************************)
(* C7.  As claimed: the set of targets of each retry round is empty or a   *)
(* strict subset of the set of targets of the round before.                *)
(***************************************************************************)
C7_StrictShrinkage ==
    \A k \in 1..(NumRounds - 1) :
        \/ Range(Sent(k + 1)) = {}
        \/ /\ Range(Sent(k + 1)) \subseteq Range(Sent(k))
           /\ Range(Sent(k + 1)) # Range(Sent(k))

(***************************************************************************)
(* C7, amended.  The targets of each retry round are among those of the    *)
(* round before and no more numerous (all of them when every result was    *)
(* "Unavailable"); it is the retry budget that bounds the call, to         *)
(* 1 + retries exchanges.                                                  *)
(***************************************************************************)
C7_Shrinkage ==
    /\ \A k \in 1..(NumRounds - 1) :
          /\ Range(Sent(k + 1)) \subseteq Range(Sent(k))
          /\ Len(Sent(k + 1)) <= Len(Sent(k))
    /\ (op = "Send" /\ retries >= 0) => NumRounds <= 1 + retries

\* Every target of round 0 was "Unavailable" and the retry round was sent to
\* the same list, until the budget ran out.
C7_Witness ==
    /\ Returned /\ op = "Send"
    /\ NumRounds = 1 + retries
    /\ NumRounds >= 2
    /\ \A k \in 1..NumRounds : Sent(k) = Original

(***************************************************************************)
(* C8.  As claimed: an identifier with a resolved result in some round is  *)
(* in the list of no later round.                                          *)
(***************************************************************************)
C8_ResolvedNeverResent ==
    \A k \in 1..NumRounds : \A later \in (k + 1)..NumRounds :
        RoundOk(k) =>
            \A j \in 1..Len(Results(k)) :
                Resolved(Results(k)[j]) => Sent(k)[j] \notin Range(Sent(later))

(***************************************************************************)
(* C8, amended.  An identifier all of whose results in some round are      *)
(* resolved is in the list of no later round (an identifier listed at      *)
(* several positions is sent again when one of its entries was             *)
(* "Unavailable").                                                         *)
(***************************************************************************)
C8_ResolvedEntriesNeverResent ==
    \A k \in 1..NumRounds : \A later \in (k + 1)..NumRounds :
        RoundOk(k) =>
            \A t \in Range(Sent(k)) :
                (\A j \in 1..Len(Results(k)) : Sent(k)[j] = t => Resolved(Results(k)[j]))
                    => t \notin Range(Sent(later))

\* Round 0 resolved the first of two distinct targets, and rounds 1 and 2
\* were sent to the second alone.
C8_Witness ==
    /\ NumRounds = 3
    /\ Cardinality(Range(Sent(1))) = 2
    /\ Resolved(Results(1)[1])
    /\ Sent(2) = <<Sent(1)[2]>>
    /\ Sent(3) = <<Sent(1)[2]>>

(***************************************************************************)
(* C9.  Send makes at most 1 + retries exchanges and is never stuck before *)
(* it returns; every retry round follows a round that answered with at     *)
(* least one "Unavailable" result; a round 0 with no such result is the    *)
(* only exchange and no sleep is taken.                                    *)
(***************************************************************************)
C9_BoundedRetries ==
    op = "Send" =>
        /\ retries >= 0 => NumRounds <= 1 + retries
        /\ Returned \/ ENABLED Next
        /\ \A k \in 2..NumRounds :
              RoundOk(k - 1) /\ RetryablePositions(k - 1) # {}
        /\ (NumRounds >= 1 /\ RoundOk(1) /\ RetryablePositions(1) = {}) =>
              (NumRounds = 1 /\ sleeps = 0)

\* Round 0 had failures, none retryable, on a positive budget: Send returned
\* after that exchange alone.
C9_Witness ==
    /\ Returned /\ op = "Send"
    /\ retries > 0
    /\ NumRounds = 1 /\ RoundOk(1)
    /\ rounds[1].reply[1].Failure > 0
    /\ sleeps = 0

(***************************************************************************)
(* C10.  Send returns an error exactly when validation rejects the call,   *)
(* the retry budget is negative or an exchange failed; otherwise it        *)
(* returns a response, whatever the per-target results are.                *)
(***************************************************************************)
C10_OnlyCallLevelErrors ==
    (Returned /\ op = "Send") =>
        /\ ret.err # NoError <=>
              \/ Invalid(sender0, msg0)
              \/ retries < 0
              \/ (NumRounds >= 1 /\ ~RoundOk(NumRounds))
        /\ ret.err = NoError <=> ret.resp # None

\* The budget ran out with a target still "Unavailable": Send returned a
\* response that holds the failure, and no error.
C10_Witness ==
    /\ Returned /\ op = "Send"
    /\ retries >= 1
    /\ NumRounds = 1 + retries
    /\ ret.err = NoError
    /\ \E p \in 1..Len(ret.resp[1].Results) : ret.resp[1].Results[p] = ResultUnavailable
    /\ \E p \in 1..Len(ret.resp[1].Results) : ret.resp[1].Results[p] = ResultNotRegistered

(***************************************************************************)
(* C11.  A call of Send with a negative retry budget makes no exchange,    *)
(* takes no sleep, leaves the message's target list as it was, and         *)
(* returns an error and no response.                                       *)
(***************************************************************************)
C11_NegativeBudgetRejected ==
    (op = "Send" /\ retries < 0) =>
        /\ rounds = <<>>
        /\ sleeps = 0
        /\ msg = msg0
        /\ Returned => (ret.err # NoError /\ ret.resp = None)

\* Send rejected a well-formed request from a well-formed sender for its
\* negative budget alone.
C11_Witness ==
    /\ Returned /\ op = "Send"
    /\ retries < 0
    /\ ~Invalid(sender0, msg0)
    /\ ret = [resp |-> None, err |-> ErrRetries]
    /\ msg.RegistrationIDs = Original
    /\ Len(Original) = 1000

\* Send has returned the response it builds after its loop.
AfterLoop ==
    /\ Returned /\ op = "Send" /\ ret.err = NoError
    /\ NumRounds >= 1
    /\ rounds[1].reply[1].Failure # 0
    /\ retries # 0

\* No identifier is at two positions of the list.
Distinct(ids) == \A p, q \in 1..Len(ids) : ids[p] = ids[q] => p = q

\* The last round whose list holds the identifier t.
LastRoundOf(t) == CHOOSE k \in 1..NumRounds :
    /\ t \in Range(Sent(k))
    /\ \A later \in (k + 1)..NumRounds : t \notin Range(Sent(later))

\* The result the identifier t got in that round (at its first position).
LastResultOf(t) ==
    LET k == LastRoundOf(t)
        j == CHOOSE x \in 1..Len(Sent(k)) :
                 Sent(k)[x] = t /\ \A y \in 1..(x - 1) : Sent(k)[y] # t
    IN  Results(k)[j]

(***************************************************************************)
(* C12.  For a target list of pairwise-distinct identifiers, the response  *)
(* Send builds after its loop holds at each original position the result   *)
(* that position's target got in the last round it was sent in, and its    *)
(* counts of successes and failures are those of these results.            *)
(***************************************************************************)
C12_LastResultPerTarget ==
    (AfterLoop /\ Distinct(Original)) =>
        /\ Len(ret.resp[1].Results) = Len(Original)
        /\ \A p \in 1..Len(Original) :
              ret.resp[1].Results[p] = LastResultOf(Original[p])
        /\ ret.resp[1].Success =
              Cardinality({p \in 1..Len(Original) : LastResultOf(Original[p]).MessageID # ""})
        /\ ret.resp[1].Failure =
              Cardinality({p \in 1..Len(Original) : LastResultOf(Original[p]).MessageID = ""})

\* Three distinct targets, round 0 = [success, Unavailable, terminal
\* failure], budget 1, round 1 = [success]: the response is [success,
\* success, terminal failure] with 2 successes and 1 failure.
C12_Witness ==
    /\ AfterLoop
    /\ Len(Original) = 3 /\ Distinct(Original)
    /\ retries = 1
    /\ NumRounds = 2
    /\ Results(1) = <<ResultOk, ResultUnavailable, ResultNotRegistered>>
    /\ Sent(2) = <<Original[2]>>
    /\ Results(2) = <<ResultOk>>
    /\ ret.resp[1].Results = <<ResultOk, ResultOk, ResultNotRegistered>>
    /\ ret.resp[1].Success = 2
    /\ ret.resp[1].Failure = 1

\* The original positions of the entries of round k's list: round 0 is sent
\* to the whole list and each retry round to the retryable entries of the
\* round before.
RECURSIVE Origin(_)
Origin(k) ==
    IF k = 1 THEN [p \in 1..Len(Original) |-> p]
    ELSE Pick(Origin(k - 1), RetryablePositions(k - 1))

\* The result the entry at the original position p got in the last round
\* it was sent in.
OwnLastResult(p) ==
    LET k == CHOOSE r \in 1..NumRounds :
                 /\ p \in Range(Origin(r))
                 /\ \A later \in (r + 1)..NumRounds : p \notin Range(Origin(later))
        j == CHOOSE x \in 1..Len(Origin(k)) : Origin(k)[x] = p
    IN  Results(k)[j]

(***************************************************************************)
(* C13.  As claimed: also when an identifier is at several positions of    *)
(* the target list, the response Send builds after its loop holds at each  *)
(* original position the result that position's own entry got in the last  *)
(* round it was sent in.                                                   *)
(***************************************************************************)
C13_AlignedByPosition ==
    AfterLoop =>
        \A p \in 1..Len(Original) : ret.resp[1].Results[p] = OwnLastResult(p)

\* Send has returned after its loop with the budget used up and targets of
\* the last round still retryable.
Exhausted ==
    /\ AfterLoop
    /\ NumRounds = 1 + retries
    /\ RetryablePositions(NumRounds) # {}

\* The last position of round k's list that holds the identifier t.
LastPositionOf(k, t) ==
    CHOOSE x \in 1..Len(Sent(k)) :
        Sent(k)[x] = t /\ \A y \in (x + 1)..Len(Sent(k)) : Sent(k)[y] # t

(***************************************************************************)
(* C14.  As claimed: when the budget is used up with targets still         *)
(* retryable, the response holds the zero-value result at the positions    *)
(* of these targets.                                                       *)
(***************************************************************************)
C14_ExhaustedReportedEmpty ==
    Exhausted =>
        \A j \in RetryablePositions(NumRounds) :
            \A p \in 1..Len(Original) :
                Original[p] = Sent(NumRounds)[j] => ret.resp[1].Results[p] = ZeroResult

(***************************************************************************)
(* C14, amended.  When the budget is used up with targets still            *)
(* retryable, the response holds at the positions of each such target the  *)
(* result last recorded for its identifier in the last round: the          *)
(* "Unavailable" failure itself when the identifier is at one position of  *)
(* that round's list, and never the zero-value result.                     *)
(***************************************************************************)
C14_ExhaustedReportedLast ==
    Exhausted =>
        \A j \in RetryablePositions(NumRounds) :
            \A p \in 1..Len(Original) :
                Original[p] = Sent(NumRounds)[j] =>
                    /\ ret.resp[1].Results[p] =
                          Results(NumRounds)[LastPositionOf(NumRounds, Sent(NumRounds)[j])]
                    /\ ret.resp[1].Results[p] # ZeroResult
                    /\ Cardinality({x \in 1..Len(Sent(NumRounds)) :
                                       Sent(NumRounds)[x] = Sent(NumRounds)[j]}) = 1
                          => ret.resp[1].Results[p] = ResultUnavailable

\* A budget of 2 was used up on two distinct targets, the second still
\* "Unavailable" in the last round: the response reports that failure.
C14_Witness ==
    /\ Exhausted
    /\ retries = 2
    /\ Len(Original) = 2 /\ Distinct(Original)
    /\ Sent(NumRounds) = <<Original[2]>>
    /\ ret.resp[1].Results[2] = ResultUnavailable
    /\ ret.resp[1].Failure >= 1

(***************************************************************************)
(* C15.  In the response Send builds after its loop, Success is the number *)
(* of results with a message id, Failure the number of the others, their   *)
(* sum the length of the original target list, and CanonicalIDs the number *)
(* of results with both a message id and a registration id.                *)
(***************************************************************************)
C15_CountsAgree ==
    AfterLoop =>
        LET r == ret.resp[1]
            positions == 1..Len(r.Results)
        IN  /\ r.Success = Cardinality({p \in positions : r.Results[p].MessageID # ""})
            /\ r.Failure = Cardinality({p \in positions : r.Results[p].MessageID = ""})
            /\ r.Success + r.Failure = Len(Original)
            /\ r.CanonicalIDs =
                  Cardinality({p \in positions : /\ r.Results[p].MessageID # ""
                                                 /\ r.Results[p].RegistrationID # ""})

\* The response built after a retry holds a success with a replacement
\* registration id, a plain success and a failure.
C15_Witness ==
    /\ AfterLoop
    /\ NumRounds = 2
    /\ ret.resp[1].Results = <<ResultCanonical, ResultOk, ResultNotRegistered>>
    /\ ret.resp[1].Success = 2
    /\ ret.resp[1].Failure = 1
    /\ ret.resp[1].CanonicalIDs = 1

\* The base delay after n retry rounds.
DelayAfter(n) == IF n >= 10 THEN 1024000 ELSE 1000 * (2 ^ n)

(***************************************************************************)
(* C16.  The base delay is 1000 when the loop starts and, after n retry    *)
(* rounds, min(1000 * 2^n, 1024000), so never above 1024000; every sleep   *)
(* taken with a base delay d lasts an integer of d/2 .. d/2 + d - 1.       *)
(***************************************************************************)
C16_Backoff ==
    /\ backoff # 0 =>
          /\ backoff = DelayAfter(sleeps)
          /\ backoff <= 1024000
    /\ slept # None =>
          /\ slept[1].base = DelayAfter(sleeps - 1)
          /\ slept[1].time \in (slept[1].base \div 2)..((slept[1].base \div 2) + slept[1].base - 1)

\* The twelfth retry slept the longest time the largest delay allows, and
\* the delay stayed at the maximum it had reached two rounds before.
C16_Witness ==
    /\ sleeps = 12
    /\ backoff = 1024000
    /\ slept[1].base = 1024000
    /\ slept[1].time = 512000 + 1023999

(***************************************************************************)
(* C17.  In a call of Send the sleeps number the retry exchanges: none     *)
(* before round 0, one between each exchange and the next, taken after     *)
(* the exchanges before it were over, and none after the last exchange.    *)
(***************************************************************************)
C17_OneSleepPerRetry ==
    op = "Send" =>
        /\ NumRounds = 0 => (sleeps = 0 /\ slept = None)
        /\ NumRounds >= 1 => sleeps = NumRounds - 1
        /\ slept # None => slept[1].exchanges = NumRounds - 1

\* Send returned after three exchanges and two sleeps, the second taken
\* between the second and the third exchange.
C17_Witness ==
    /\ Returned /\ op = "Send"
    /\ NumRounds = 3
    /\ sleeps = 2
    /\ slept[1].exchanges = 2
    /\ ret.err = NoError

(***************************************************************************)
(* C19.  A call that validation rejects leaves the message and the sender  *)
(* (ApiKey, URL, Http) as they were before the call.                       *)
(***************************************************************************)
ValidationError == Returned /\ ret.err \notin {NoError, ErrTransport}

C19_RejectionHasNoSideEffects ==
    ValidationError => (msg = msg0 /\ sender = sender0)

(***************************************************************************)
(* C20.  In the Response Send builds after the loop, an original target    *)
(* for which no round recorded a result (a response may hold fewer         *)
(* results than the targets sent) carries the empty result and is counted  *)
(* in Failure, not in Success.                                             *)
(***************************************************************************)
\* Some round's response held a result at a position of target t.
Recorded(t) ==
    \E k \in 1..NumRounds :
        /\ RoundOk(k)
        /\ \E j \in 1..Len(Results(k)) : j <= Len(Sent(k)) /\ Sent(k)[j] = t

Unrecorded == {p \in 1..Len(Original) : ~Recorded(Original[p])}

C20_AbsentReportedAsFailure ==
    AfterLoop =>
        LET out == ret.resp[1]
            failed == {p \in 1..Len(out.Results) : ~IsSuccess(out.Results[p])}
        IN  /\ Len(out.Results) = Len(Original)
            /\ \A p \in Unrecorded : out.Results[p] = ZeroResult /\ p \in failed
            /\ out.Failure = Cardinality(failed)
            /\ out.Success = Len(Original) - Cardinality(failed)

\* Round 0 answered two targets with one result, retryable; the retry
\* delivered it: the overall Response counts one success and one failure,
\* the target without a result.
C20_Witness ==
    /\ AfterLoop
    /\ gateway = "any"
    /\ Len(Original) = 2
    /\ Unrecorded = {2}
    /\ Len(Results(1)) = 1
    /\ NumRounds = 2
    /\ ret.resp[1].Success = 1
    /\ ret.resp[1].Failure = 1

(***************************************************************************)
(* C18.  Two calls of Send that share a message: after both have returned, *)
(* the target list differs from the original only if the calls overlapped  *)
(* and one of them saved the list when it was not the original; calls      *)
(* that own the message one after the other leave it restored.  The        *)
(* witness is the interleaving that leaves the list shortened.             *)
(***************************************************************************)
BothReturned == \A c \in Callers : callers[c].pc = "done"

C18_RestoredUnlessShared ==
    (BothReturned /\ msg.RegistrationIDs # Original) =>
        /\ \E c \in Callers : ~callers[c].solo
        /\ \E c \in Callers : callers[c].stale

\* Both calls returned a Response, one of them having saved the list the
\* other had shortened, and the message is left with one of its two targets.
C18_Witness ==
    /\ BothReturned
    /\ \A c \in Callers : callers[c].ret.err = NoError
    /\ Original = <<ID(1), ID(2)>>
    /\ Len(msg.RegistrationIDs) = 1
    /\ Junk \notin Range(msg.RegistrationIDs)
    /\ slice = Header(msg.RegistrationIDs)
    /\ \E c \in Callers : callers[c].stale

====
